---------------------------- MODULE Spec2Model ----------------------------
(***************************************************************************)
(* A model of the content pipeline of the PostgreSQL course site:          *)
(*   - src/src/lib/content.ts            loaders, cache, heading extraction *)
(*   - src/unnamed/part_004              ContentProvider (manifest context) *)
(*   - src/src/routes/Lesson.tsx         Lesson route (lesson fetch effect) *)
(*   - src/src/components/ErrorMessage.tsx (lines 42-179) MarkdownRenderer  *)
(*                                                                         *)
(* Text is a sequence of one-character strings.  Time is counted in        *)
(* milliseconds, as Date.now() does.                                       *)
(***************************************************************************)
EXTENDS Integers, Sequences, FiniteSets, TLC

VARIABLES
    \* ---- heading extraction (content.ts extractHeadings) ----
    markdown,       \* the source text handed to extractHeadings
    headings,       \* the forest it returned
    pcH,            \* "input" before the call, "done" after it
    \* ---- Markdown rendering (MarkdownRenderer.processMarkdown) ----
    mdSource,       \* the markdown prop
    processedHtml,  \* the string given to dangerouslySetInnerHTML
    pcR,            \* "input" before processing, "done" after it
    isLoading,      \* MarkdownRenderer's isLoading state
    renderError,    \* MarkdownRenderer's error state
    runs,           \* the calls of processMarkdown, oldest first, and how each ended
    \* ---- loaders and cache (content.ts) ----
    now,            \* Date.now()
    storage,        \* sessionStorage: key -> stored string
    calls,          \* fetch calls that have not settled yet, by controller id
    nextId,         \* the next controller id
    storageFault,   \* "none", or how sessionStorage fails: "read" | "write"
    timers,         \* by controller id: "none" | "armed" | "due" (its timeout)
    \* ---- ContentProvider (part_004) ----
    provider,       \* "new" | "mounted" | "unmounted"
    providerCall,   \* the controller of the mount effect (0: none outstanding)
    manifest, loading, error,
    \* ---- Lesson route (Lesson.tsx) ----
    route,          \* "home" or the slug of /lesson/:slug
    effectCall,     \* the controller of the current effect (0: none outstanding)
    lessonContent, contentLoading, contentError,
    \* ---- observation ----
    lastDone,       \* how the call that settled last ended
    \* ---- buildHeadingTree called on a list of headings ----
    flatHeadings,   \* the argument
    headingTree,    \* the forest it returned
    pcT,            \* "input" before the call, "done" after it
    \* ---- generateHeadingId called on a heading text ----
    headingText,    \* the argument
    headingId,      \* the id it returned
    pcS,            \* "input" before the call, "done" after it
    \* ---- Home's list and getLessonNavigation on a manifest ----
    navLessons,     \* manifest.lessons
    homeList,       \* the slugs of Home's cards, top to bottom
    navigation,     \* what getLessonNavigation returned
    pcN,            \* "input" | "home" | "lesson"
    \* ---- a loader called directly with a signal ----
    direct          \* the call: its key, its signal, how it ended

hvars == <<markdown, headings, pcH>>
rvars == <<mdSource, processedHtml, pcR, isLoading, renderError, runs>>
lvars == <<now, storage, calls, nextId, provider, providerCall, manifest, loading,
           error, route, effectCall, lessonContent, contentLoading, contentError,
           lastDone, storageFault, timers>>
tvars == <<flatHeadings, headingTree, pcT>>
svars == <<headingText, headingId, pcS>>
nvars == <<navLessons, homeList, navigation, pcN>>
pvars == <<tvars, svars, nvars, direct>>

---------------------------------------------------------------------------
(* Characters                                                              *)

NL == "\n"
Whitespace == {" ", NL}                       \* what \s matches here
UpperCase == <<"A", "B", "C", "D", "E", "F">>
LowerCase == <<"a", "b", "c", "d", "e", "f">>
LowerOf(c) ==
    IF \E i \in 1..Len(UpperCase) : UpperCase[i] = c
    THEN LowerCase[CHOOSE i \in 1..Len(UpperCase) : UpperCase[i] = c]
    ELSE c
IsSlugChar(c) ==                                            \* [a-z0-9\s-]
    \/ \E i \in 1..Len(LowerCase) : LowerCase[i] = c
    \/ c \in {"1", "-"} \/ c \in Whitespace

Last(s) == s[Len(s)]
Front(s) == SubSeq(s, 1, Len(s) - 1)

RECURSIVE Concat(_)
Concat(ss) == IF ss = <<>> THEN <<>> ELSE Head(ss) \o Concat(Tail(ss))

\* String.prototype.trim
RECURSIVE TrimLeft(_)
TrimLeft(s) == IF s # <<>> /\ Head(s) \in Whitespace THEN TrimLeft(Tail(s)) ELSE s
RECURSIVE TrimRight(_)
TrimRight(s) == IF s # <<>> /\ Last(s) \in Whitespace THEN TrimRight(Front(s)) ELSE s
Trim(s) == TrimRight(TrimLeft(s))

---------------------------------------------------------------------------
(* generateHeadingId, content.ts 120-127                                   *)

ToLowerCase(s) == [i \in 1..Len(s) |-> LowerOf(s[i])]

\* .replace(/[^a-z0-9\s-]/g, '')
RemoveSpecial(s) == SelectSeq(s, IsSlugChar)

\* .replace(/\s+/g, '-') : every run of whitespace becomes one hyphen
RECURSIVE SpacesToHyphens(_)
SpacesToHyphens(s) ==
    IF s = <<>> THEN <<>>
    ELSE IF Head(s) \in Whitespace
         THEN <<"-">> \o SpacesToHyphens(TrimLeft(s))
         ELSE <<Head(s)>> \o SpacesToHyphens(Tail(s))

\* .replace(/-+/g, '-') : every run of hyphens becomes one hyphen
RECURSIVE DropHyphens(_)
DropHyphens(s) == IF s # <<>> /\ Head(s) = "-" THEN DropHyphens(Tail(s)) ELSE s
RECURSIVE CollapseHyphens(_)
CollapseHyphens(s) ==
    IF s = <<>> THEN <<>>
    ELSE IF Head(s) = "-"
         THEN <<"-">> \o CollapseHyphens(DropHyphens(s))
         ELSE <<Head(s)>> \o CollapseHyphens(Tail(s))

\* .replace(/^-|-$/g, '') : one leading and one trailing hyphen are removed
TrimHyphens(s) ==
    LET a == IF s # <<>> /\ Head(s) = "-" THEN Tail(s) ELSE s
    IN  IF a # <<>> /\ Last(a) = "-" THEN Front(a) ELSE a

generateHeadingId(text) ==
    TrimHyphens(CollapseHyphens(SpacesToHyphens(RemoveSpecial(ToLowerCase(text)))))

---------------------------------------------------------------------------
(* extractHeadings, content.ts 99-117:                                     *)
(*   /^(#{2,4})\s+(.+)$/gm  run with exec() until it returns null          *)

AtLineStart(md, i) == i = 1 \/ md[i - 1] = NL

\* length of the run of characters of set S that starts at position i
RECURSIVE RunLen(_, _, _)
RunLen(md, i, S) ==
    IF i <= Len(md) /\ md[i] \in S THEN 1 + RunLen(md, i + 1, S) ELSE 0

\* the last position of the line that holds position i  (. does not match \n)
RECURSIVE LineEnd(_, _)
LineEnd(md, i) ==
    IF i < Len(md) /\ md[i + 1] # NL THEN LineEnd(md, i + 1) ELSE i

\* One attempt of the regex at position i.  (#{2,4}) is greedy but only the
\* whole run of '#' can be followed by \s, so the run must be 2..4 long.
\* \s+ is greedy over the whitespace run (newlines included) and gives
\* characters back until (.+) finds a character that is not a newline.
MatchAt(md, i) ==
    LET h  == RunLen(md, i, {"#"})
        j  == i + h
        w  == RunLen(md, j, Whitespace)
        ks == {k \in 1..w : j + k <= Len(md) /\ md[j + k] # NL}
    IN  IF AtLineStart(md, i) /\ h \in 2..4 /\ w >= 1 /\ ks # {}
        THEN LET k == CHOOSE x \in ks : \A y \in ks : y <= x
                 p == j + k
                 e == LineEnd(md, p)
             IN  [ok |-> TRUE, level |-> h, text |-> SubSeq(md, p, e), end |-> e]
        ELSE [ok |-> FALSE, level |-> 0, text |-> <<>>, end |-> i]

\* the successive results of headingRegex.exec(markdown), from position `from`:
\* the search resumes at lastIndex, the end of the previous match
RECURSIVE ScanMatches(_, _)
ScanMatches(md, from) ==
    IF from > Len(md) THEN <<>>
    ELSE LET m == MatchAt(md, from)
         IN  IF m.ok
             THEN <<[start |-> from, level |-> m.level, text |-> m.text]>>
                  \o ScanMatches(md, m.end + 1)
             ELSE ScanMatches(md, from + 1)

\* the flat list pushed by the while loop
ScanHeadings(md) ==
    LET ms == ScanMatches(md, 1)
    IN  [i \in 1..Len(ms) |->
            [id    |-> generateHeadingId(Trim(ms[i].text)),
             depth |-> ms[i].level,
             text  |-> Trim(ms[i].text)]]

---------------------------------------------------------------------------
(* buildHeadingTree, content.ts 130-156                                    *)

\* a loop that pops only the deeper headings
RECURSIVE PopStackStrict(_, _, _)
PopStackStrict(flat, stack, d) ==
    IF stack # <<>> /\ flat[Last(stack)].depth > d
    THEN PopStackStrict(flat, Front(stack), d) ELSE stack

\* while (stack.length > 0 && stack[top].depth >= heading.depth) stack.pop()
RECURSIVE PopStack(_, _, _)
PopStack(flat, stack, d) ==
    IF stack # <<>> /\ flat[Last(stack)].depth >= d
    THEN PopStack(flat, Front(stack), d) ELSE stack

\* parent index of every heading (0: pushed to root), by the stack pass
RECURSIVE ParentsFrom(_, _, _)
ParentsFrom(flat, i, stack) ==
    IF i > Len(flat) THEN <<>>
    ELSE LET st == PopStack(flat, stack, flat[i].depth)
             p  == IF st = <<>> THEN 0 ELSE Last(st)
         IN  <<p>> \o ParentsFrom(flat, i + 1, Append(st, i))

Parents(flat) == ParentsFrom(flat, 1, <<>>)

\* children put in front of their siblings: unshift in place of push
ChildrenOfReversed(par, p) ==
    LET cs == SelectSeq([i \in 1..Len(par) |-> i], LAMBDA i : par[i] = p)
    IN  [k \in 1..Len(cs) |-> cs[Len(cs) + 1 - k]]

\* the indices whose parent is p, in the order they were pushed
ChildrenOf(par, p) == SelectSeq([i \in 1..Len(par) |-> i], LAMBDA i : par[i] = p)

RECURSIVE NodeOf(_, _, _)
NodeOf(flat, par, i) ==
    LET cs == ChildrenOf(par, i)
    IN  [id       |-> flat[i].id,
         depth    |-> flat[i].depth,
         text     |-> flat[i].text,
         children |-> [k \in 1..Len(cs) |-> NodeOf(flat, par, cs[k])]]

buildHeadingTree(flat) ==
    LET par   == Parents(flat)
        roots == ChildrenOf(par, 0)
    IN  [k \in 1..Len(roots) |-> NodeOf(flat, par, roots[k])]

extractHeadings(md) == buildHeadingTree(ScanHeadings(md))

\* pre-order walk of a forest: the TOC's rendering order (TOC.tsx renderHeading)
RECURSIVE Preorder(_)
Preorder(forest) ==
    IF forest = <<>> THEN <<>>
    ELSE <<[id |-> Head(forest).id, depth |-> Head(forest).depth,
            text |-> Head(forest).text]>>
         \o Preorder(Head(forest).children) \o Preorder(Tail(forest))

---------------------------------------------------------------------------
(* buildHeadingTree on lists of headings: the k-th heading has the k-th    *)
(* letter as its text                                                      *)

MaxFlat == 5           \* headings in a list

FlatHeading(k, d) ==
    [id |-> generateHeadingId(<<UpperCase[k]>>), depth |-> d, text |-> <<UpperCase[k]>>]

TInit == flatHeadings = <<>> /\ headingTree = <<>> /\ pcT = "input"

\* headings.push({ id, depth: level, text })              (content.ts 109-113)
PushHeading ==
    /\ pcT = "input"
    /\ Len(flatHeadings) < MaxFlat
    /\ \E d \in 2..4 :
          flatHeadings' = Append(flatHeadings, FlatHeading(Len(flatHeadings) + 1, d))
    /\ UNCHANGED <<headingTree, pcT, hvars, rvars, lvars, svars, nvars, direct>>

\* return buildHeadingTree(headings)                      (content.ts 116)
BuildTree ==
    /\ pcT = "input"
    /\ headingTree' = buildHeadingTree(flatHeadings)
    /\ pcT' = "done"
    /\ UNCHANGED <<flatHeadings, hvars, rvars, lvars, svars, nvars, direct>>

---------------------------------------------------------------------------
(* generateHeadingId on heading texts                                      *)

MaxTextLen == 4        \* characters of a heading text
TextChars == {"a", "A", " ", "-", "&"}

SInit == headingText = <<>> /\ headingId = <<>> /\ pcS = "input"

\* the heading text grows by one character
TypeText ==
    /\ pcS = "input"
    /\ Len(headingText) < MaxTextLen
    /\ \E c \in TextChars : headingText' = Append(headingText, c)
    /\ UNCHANGED <<headingId, pcS, hvars, rvars, lvars, tvars, nvars, direct>>

\* const id = generateHeadingId(text)                     (content.ts 107)
Slugify ==
    /\ pcS = "input"
    /\ headingId' = generateHeadingId(headingText)
    /\ pcS' = "done"
    /\ UNCHANGED <<headingText, hvars, rvars, lvars, tvars, nvars, direct>>

---------------------------------------------------------------------------
(* The heading-id stage of the render pipeline, ErrorMessage.tsx 67-71:    *)
(* remarkParse finds the headings, rehypeSlug gives each h1..h6 element    *)
(* the id github-slugger computes for its text.                            *)

RECURSIVE SplitLines(_)
SplitLines(md) ==
    LET n == IF md = <<>> THEN 0 ELSE IF md[1] = NL THEN 0 ELSE LineEnd(md, 1)
    IN  IF n >= Len(md) THEN <<md>>
        ELSE <<SubSeq(md, 1, n)>> \o SplitLines(SubSeq(md, n + 2, Len(md)))

IsFenceLine(line) == Len(line) >= 3 /\ RunLen(line, 1, {"~"}) >= 3

\* an ATX heading line: 1..6 '#', then a space or the end of the line
AtxLevel(line) ==
    LET h == RunLen(line, 1, {"#"})
    IN  IF h \in 1..6 /\ (Len(line) = h \/ line[h + 1] = " ") THEN h ELSE 0

\* the heading elements of the document, fenced code skipped
RECURSIVE ParseHeadings(_, _)
ParseHeadings(lines, inFence) ==
    IF lines = <<>> THEN <<>>
    ELSE LET l == Head(lines)
         IN  IF IsFenceLine(l) THEN ParseHeadings(Tail(lines), ~inFence)
             ELSE IF ~inFence /\ AtxLevel(l) > 0
                  THEN <<[depth |-> AtxLevel(l),
                          text  |-> Trim(SubSeq(l, AtxLevel(l) + 1, Len(l)))]>>
                       \o ParseHeadings(Tail(lines), inFence)
                  ELSE ParseHeadings(Tail(lines), inFence)

\* github-slugger slug(): lower case, drop punctuation and symbols other than
\* '-' and '_', then every single space becomes a hyphen
IsSluggerChar(c) == c \in {"a", "b", "1", "-", " "}
ReplaceEachSpace(s) == [i \in 1..Len(s) |-> IF s[i] = " " THEN "-" ELSE s[i]]
githubSlug(text) == ReplaceEachSpace(SelectSeq(ToLowerCase(text), IsSluggerChar))

DigitOf(n) == <<"1", "2", "3", "4", "5", "6", "7", "8", "9">>[n]

\* BananaSlug.slug(): a slug already handed out gets -1, -2, ... appended
RECURSIVE SluggerNext(_, _, _)
SluggerNext(occ, orig, result) ==
    IF result \in DOMAIN occ
    THEN LET occ2 == [occ EXCEPT ![orig] = @ + 1]
         IN  SluggerNext(occ2, orig, orig \o <<"-", DigitOf(occ2[orig])>>)
    ELSE [occ |-> [r \in DOMAIN occ \cup {result} |->
                       IF r = result THEN 0 ELSE occ[r]],
          id |-> result]

RECURSIVE rehypeSlug(_, _)
rehypeSlug(hs, occ) ==
    IF hs = <<>> THEN <<>>
    ELSE LET r == SluggerNext(occ, githubSlug(Head(hs).text), githubSlug(Head(hs).text))
         IN  <<[id |-> r.id, depth |-> Head(hs).depth, text |-> Head(hs).text]>>
             \o rehypeSlug(Tail(hs), r.occ)

\* the heading elements of the rendered page with their id attributes
PipelineHeadings(md) == rehypeSlug(ParseHeadings(SplitLines(md), FALSE), <<>>)

---------------------------------------------------------------------------
(* Source texts for extractHeadings                                        *)

MaxLines == 3          \* lines of a document
MaxHashes == 5         \* longest run of '#' that opens a line

Hashes(n) == [i \in 1..n |-> "#"]
Fence == <<"~", "~", "~">>          \* a code fence line
HeadingTexts == { <<"a">>, <<"A">>, <<"a", " ", "&", " ", "b">> }

DocLines ==
    { Hashes(n) \o <<" ">> \o t : n \in 1..MaxHashes, t \in HeadingTexts }
    \cup { Fence, <<>>, <<"a">>, Hashes(2), Hashes(2) \o <<"a">> }

HIdle == markdown = <<>> /\ headings = <<>> /\ pcH = "idle"
\* useState<string | null>(null)                      (ErrorMessage.tsx 59)
NoRenderError == "null"
RIdle ==
    /\ mdSource = <<>> /\ processedHtml = <<>> /\ pcR = "idle"
    /\ isLoading = TRUE /\ renderError = NoRenderError /\ runs = <<>>

TIdle == flatHeadings = <<>> /\ headingTree = <<>> /\ pcT = "idle"
SIdle == headingText = <<>> /\ headingId = <<>> /\ pcS = "idle"
NIdle == navLessons = <<>> /\ homeList = <<>> /\ navigation = <<>> /\ pcN = "idle"
NoDirectCall ==
    [key |-> "-", atCall |-> FALSE, aborted |-> FALSE, outcome |-> "none",
     cause |-> "-", value |-> [isNull |-> TRUE],
     error |-> [isError |-> FALSE, name |-> "-", message |-> <<>>]]
DIdle == direct = NoDirectCall
PIdle == TIdle /\ SIdle /\ NIdle /\ DIdle

LineCount(md) == Len(SelectSeq(md, LAMBDA c : c = NL)) + 1

\* a lesson file: its first line, then more lines, then the call
HInit == markdown \in DocLines /\ headings = <<>> /\ pcH = "input"

AppendLine ==
    /\ pcH = "input"
    /\ LineCount(markdown) < MaxLines
    /\ \E l \in DocLines : markdown' = markdown \o <<NL>> \o l
    /\ UNCHANGED <<headings, pcH, rvars, lvars, pvars>>

\* const headings = extractHeadings(markdown)   (content.ts 79)
Extract ==
    /\ pcH = "input"
    /\ headings' = extractHeadings(markdown)
    /\ pcH' = "done"
    /\ UNCHANGED <<markdown, rvars, lvars, pvars>>

---------------------------------------------------------------------------
(* MarkdownRenderer.processMarkdown, ErrorMessage.tsx 62-114: the unified   *)
(* pipeline on one paragraph of inline text.  A node of the tree is        *)
(* [type, value]; the serialized string is a sequence of tokens, where a   *)
(* tag the pipeline itself writes is one token ("<p>") and every character *)
(* that comes from the source is a token of its own.                       *)

MaxSrcLen == 4         \* characters of a rendered source text
SrcChars == {"a", "<", ">", "&"}

\* remarkParse: "<" tag-name ">" is an html node, anything else is text
RECURSIVE remarkParse(_)
remarkParse(src) ==
    IF src = <<>> THEN <<>>
    ELSE LET n == RunLen(src, 2, {"a"})
         IN  IF Head(src) = "<" /\ n >= 1 /\ Len(src) >= n + 2 /\ src[n + 2] = ">"
             THEN <<[type |-> "html", value |-> SubSeq(src, 1, n + 2)]>>
                  \o remarkParse(SubSeq(src, n + 3, Len(src)))
             ELSE <<[type |-> "text", value |-> <<Head(src)>>]>>
                  \o remarkParse(Tail(src))

\* .use(remarkRehype, { allowDangerousHtml: true }): an html node becomes a
\* raw node when the option is set and is dropped when it is not
remarkRehypeAllowDangerousHtml == TRUE
remarkRehype(mdast) ==
    LET kept == SelectSeq(mdast, LAMBDA n :
                    n.type = "text" \/ remarkRehypeAllowDangerousHtml)
    IN  [i \in 1..Len(kept) |->
            IF kept[i].type = "html"
            THEN [type |-> "raw", value |-> kept[i].value]
            ELSE kept[i]]

EscapeChar(c) ==
    IF c = "<" THEN <<"&", "l", "t", ";">>
    ELSE IF c = "&" THEN <<"&", "a", "m", "p", ";">>
    ELSE <<c>>
EscapeText(t) == Concat([i \in 1..Len(t) |-> EscapeChar(t[i])])

\* .use(rehypeStringify, { allowDangerousHtml: true }): text is escaped; a raw
\* node is written as it stands when the option is set, escaped when not
rehypeStringifyAllowDangerousHtml == TRUE
rehypeStringify(hast) ==
    IF hast = <<>> THEN <<>>
    ELSE <<"<p>">>
         \o Concat([i \in 1..Len(hast) |->
                IF hast[i].type = "raw" /\ rehypeStringifyAllowDangerousHtml
                THEN hast[i].value
                ELSE EscapeText(hast[i].value)])
         \o <<"</p>">>

\* html.replace(/<pre[^>]*><code[^>]*>...<\/code><\/pre>/g, ...): the copy
\* button goes in after the <pre> of every highlighted code block
RECURSIVE AddCopyButtons(_)
AddCopyButtons(html) ==
    IF html = <<>> THEN <<>>
    ELSE IF Len(html) >= 2 /\ html[1] = "<pre>" /\ html[2] = "<code>"
         THEN <<"<pre>", "<button class=copy-button>">> \o AddCopyButtons(Tail(html))
         ELSE <<Head(html)>> \o AddCopyButtons(Tail(html))

processMarkdown(src) == AddCopyButtons(rehypeStringify(remarkRehype(remarkParse(src))))

RInit ==
    /\ mdSource \in {<<c>> : c \in SrcChars} /\ processedHtml = <<>> /\ pcR = "input"
    /\ isLoading = TRUE /\ renderError = NoRenderError /\ runs = <<>>

\* the lesson text grows by one character
TypeChar ==
    /\ pcR = "input"
    /\ Len(mdSource) < MaxSrcLen
    /\ \E c \in SrcChars : mdSource' = Append(mdSource, c)
    /\ UNCHANGED <<processedHtml, pcR, isLoading, renderError, runs, hvars, lvars, pvars>>

\* the parent renders MarkdownRenderer again with a longer text: the effect
\* of [markdown] is due
ChangeMarkdown ==
    /\ pcR = "done"
    /\ Len(mdSource) < MaxSrcLen
    /\ \E c \in SrcChars : mdSource' = Append(mdSource, c)
    /\ pcR' = "changed"
    /\ UNCHANGED <<processedHtml, isLoading, renderError, runs, hvars, lvars, pvars>>

\* a stage of the pipeline throws: catch (err) { setError(...) } finally
\* { setIsLoading(false) }                          (ErrorMessage.tsx 108-113)
ProcessFailedMessage == "Failed to process markdown content"
ProcessThrows ==
    /\ pcR \in {"input", "changed"}
    /\ mdSource # <<>>
    /\ renderError' = ProcessFailedMessage
    /\ isLoading' = FALSE
    /\ pcR' = "done"
    /\ UNCHANGED <<mdSource, processedHtml, runs, hvars, lvars, pvars>>

\* the branch without the error case
DisplayedHtmlFirst ==
    IF isLoading THEN [kind |-> "spinner"]
    ELSE [kind |-> "html", html |-> processedHtml]

\* what MarkdownRenderer returns                      (ErrorMessage.tsx 151-178)
Displayed ==
    IF isLoading THEN [kind |-> "spinner"]
    ELSE IF renderError # NoRenderError THEN [kind |-> "error", message |-> renderError]
    ELSE [kind |-> "html", html |-> processedHtml]

\* if (markdown) processMarkdown(); ... setProcessedHtml(html)
ProcessMarkdown ==
    /\ pcR \in {"input", "changed"}
    /\ mdSource # <<>>
    /\ processedHtml' = processMarkdown(mdSource)
    /\ renderError' = NoRenderError
    /\ isLoading' = FALSE
    /\ pcR' = "done"
    /\ UNCHANGED <<mdSource, runs, hvars, lvars, pvars>>

---------------------------------------------------------------------------
(* MarkdownRenderer as a mounted component: every run of the effect starts *)
(* a call of processMarkdown, which ends when its pipeline has settled     *)

MaxRuns == 3           \* calls of processMarkdown in one run
MaxPropLen == 2        \* characters of a markdown prop
PropChars == {"a", "<"}
MarkdownProps ==
    UNION {[1..n -> PropChars] : n \in 0..MaxPropLen}

\* useState('') / useState(true) / useState(null)      (ErrorMessage.tsx 57-59)
RendererInit ==
    /\ mdSource = <<>> /\ processedHtml = <<>> /\ pcR = "unmounted"
    /\ isLoading = TRUE /\ renderError = NoRenderError /\ runs = <<>>

\* an effect that calls processMarkdown for the empty text too
EffectRunsAlways(md) == TRUE

\* if (markdown) { processMarkdown() }               (ErrorMessage.tsx 116-118)
EffectRuns(md) == md # <<>>

\* the effect of [markdown]: processMarkdown up to its await: setIsLoading(true),
\* setError(null), and the pipeline is started         (ErrorMessage.tsx 61-92)
RunEffect(md) ==
    IF EffectRuns(md)
    THEN /\ isLoading' = TRUE
         /\ renderError' = NoRenderError
         /\ runs' = Append(runs, [md |-> md, outcome |-> "pending"])
    ELSE UNCHANGED <<isLoading, renderError, runs>>

\* <MarkdownRenderer markdown={lessonContent.markdown} /> mounts
\*                                                    (Lesson.tsx 138-143)
MountRenderer ==
    /\ pcR = "unmounted"
    /\ \E md \in MarkdownProps :
          /\ mdSource' = md
          /\ RunEffect(md)
    /\ pcR' = "mounted"
    /\ UNCHANGED <<processedHtml, hvars, lvars, pvars>>

\* the parent renders the component with another markdown
SetMarkdown ==
    /\ pcR = "mounted"
    /\ Len(runs) < MaxRuns
    /\ \E md \in MarkdownProps :
          /\ md # mdSource
          /\ mdSource' = md
          /\ RunEffect(md)
    /\ UNCHANGED <<processedHtml, pcR, hvars, lvars, pvars>>

\* the pipeline of a run resolves: setProcessedHtml(html); finally
\* setIsLoading(false)                           (ErrorMessage.tsx 94-107, 111-113)
RunResolves ==
    /\ \E i \in 1..Len(runs) :
          /\ runs[i].outcome = "pending"
          /\ processedHtml' = processMarkdown(runs[i].md)
          /\ runs' = [runs EXCEPT ![i].outcome = "html"]
    /\ isLoading' = FALSE
    /\ UNCHANGED <<mdSource, pcR, renderError, hvars, lvars, pvars>>

\* the pipeline of a run rejects: setError(...); finally setIsLoading(false)
\*                                                  (ErrorMessage.tsx 108-113)
RunRejects ==
    /\ \E i \in 1..Len(runs) :
          /\ runs[i].outcome = "pending"
          /\ runs' = [runs EXCEPT ![i].outcome = "error"]
    /\ renderError' = ProcessFailedMessage
    /\ isLoading' = FALSE
    /\ UNCHANGED <<mdSource, processedHtml, pcR, hvars, lvars, pvars>>

---------------------------------------------------------------------------
(* Cache, content.ts 10-13, and what the server holds                      *)

MANIFEST_CACHE_KEY == "content-manifest"
LESSON_CACHE_PREFIX == "lesson-content-"
CACHE_EXPIRY == 1000 * 60 * 30

MaxCalls == 3          \* network requests sent in one run
MaxTicks == 3          \* clock readings in one run
TickMs == CACHE_EXPIRY \div 2     \* the clock is read in steps of 15 minutes

Slugs == {"s1", "s2"}
LessonKey(slug) == LESSON_CACHE_PREFIX \o slug
Keys == {MANIFEST_CACHE_KEY} \cup {LessonKey(sl) : sl \in Slugs}
\* what else sessionStorage may hold: the entry of a lesson that has left the
\* manifest, and an item of another script of the page
RetiredLessonKey == LessonKey("s0")
ForeignKey == "lesson-progress"
StorageKeys == Keys \cup {RetiredLessonKey, ForeignKey}
Ids == 1..MaxCalls

\* sessionStorage holds strings: getItem gives null or what setItem stored
NoEntry == [has |-> FALSE]
Stringify(v) == [has |-> TRUE, json |-> v]
Parse(str) == str.json
\* a stored text that is not JSON: JSON.parse throws a SyntaxError
Truncated == [has |-> TRUE, truncated |-> TRUE]
ParseThrows(str) == str.has /\ "truncated" \in DOMAIN str

NoManifest == [isNull |-> TRUE]
NoLesson == [isNull |-> TRUE]
NoContent == [isNull |-> TRUE]
NoError == <<>>
NoCall == [kind |-> "-", slug |-> "-", owner |-> "-", pc |-> "none",
           aborted |-> FALSE, live |-> FALSE]
NothingDone == [how |-> "none", key |-> "-"]

\* /content-manifest.json as the server may send it: the course's manifest, or
\* well-formed JSON of another shape
TwoLessons == <<[order |-> 1, slug |-> "s1"], [order |-> 2, slug |-> "s2"]>>
GoodManifest == [course |-> "PostgreSQL", lessons |-> TwoLessons]
DupSlugManifest ==
    [course |-> "PostgreSQL",
     lessons |-> <<[order |-> 1, slug |-> "s1"], [order |-> 2, slug |-> "s1"]>>]
DupOrderManifest ==
    [course |-> "PostgreSQL",
     lessons |-> <<[order |-> 1, slug |-> "s1"], [order |-> 1, slug |-> "s2"]>>]
NoCourseManifest == [course |-> "undefined", lessons |-> TwoLessons]
ManifestBodies == {GoodManifest, DupSlugManifest, DupOrderManifest, NoCourseManifest}

\* the Markdown file behind lesson.mdPath
LessonFile(slug) ==
    IF slug = "s1" THEN <<"#", "#", " ", "a">>
    ELSE <<"#", "#", " ", "b", NL, "#", "#", "#", " ", "a">>

---------------------------------------------------------------------------
(* The loaders and the two components, as steps on the whole state S.      *)
(* One action is one task of the event loop: the handler's synchronous     *)
(* code and what runs up to the first await that has to wait.              *)

Cur ==
    [now |-> now, storage |-> storage, calls |-> calls, nextId |-> nextId,
     provider |-> provider, providerCall |-> providerCall, manifest |-> manifest,
     loading |-> loading, error |-> error, route |-> route,
     effectCall |-> effectCall, lessonContent |-> lessonContent,
     contentLoading |-> contentLoading, contentError |-> contentError,
     lastDone |-> lastDone, storageFault |-> storageFault, timers |-> timers]

Commit(S) ==
    /\ S.nextId <= MaxCalls + 1
    /\ now' = S.now /\ storage' = S.storage /\ calls' = S.calls
    /\ nextId' = S.nextId /\ provider' = S.provider
    /\ providerCall' = S.providerCall /\ manifest' = S.manifest
    /\ loading' = S.loading /\ error' = S.error /\ route' = S.route
    /\ effectCall' = S.effectCall /\ lessonContent' = S.lessonContent
    /\ contentLoading' = S.contentLoading /\ contentError' = S.contentError
    /\ lastDone' = S.lastDone /\ storageFault' = S.storageFault
    /\ timers' = S.timers

\* the comparison with <= in place of <
CacheFreshInclusive(parsedCache, t) ==
    parsedCache.timestamp # 0 /\ t - parsedCache.timestamp <= CACHE_EXPIRY

\* parsedCache.timestamp && Date.now() - parsedCache.timestamp < CACHE_EXPIRY
CacheFresh(parsedCache, t) ==
    parsedCache.timestamp # 0 /\ t - parsedCache.timestamp < CACHE_EXPIRY

\* const cached = sessionStorage.getItem(key); if (cached) { JSON.parse ... }
CacheHit(st, key, t) ==
    st[key].has /\ ~ParseThrows(st[key]) /\ CacheFresh(Parse(st[key]), t)

\* fetch(url) without the signal: an abort does not reach the request
SignalNotPassed(c) == FALSE

\* fetch(url, { signal }): the request of an aborted signal is rejected,
\* never answered
SignalAborted(c) == c.aborted

\* controller.abort()
AbortController(cs, id) ==
    [c \in Ids |-> IF c = id /\ cs[c].pc # "none"
                   THEN [cs[c] EXCEPT !.aborted = TRUE] ELSE cs[c]]

\* setTimeout(() => { ... }, 30000)                      (content.ts 237-241)
REQUEST_TIMEOUT == 30000
SetTimer(ts, id, t) == [c \in Ids |-> IF c = id THEN t ELSE ts[c]]
\* the timers after ms milliseconds: one that was armed before is due
Elapse(ts, ms) ==
    [c \in Ids |-> IF ts[c] = "armed" /\ ms >= REQUEST_TIMEOUT THEN "due" ELSE ts[c]]

AddCall(cs, id, call) == [c \in Ids |-> IF c = id THEN call ELSE cs[c]]

\* the call has settled: nothing refers to its controller any more
Settled(S, id, how) ==
    [S EXCEPT !.calls = AddCall(S.calls, id, NoCall),
              !.providerCall = IF @ = id THEN 0 ELSE @,
              !.effectCall = IF @ = id THEN 0 ELSE @,
              !.lastDone = how]

\* catch (err) { ... setError(errorMessage) } finally { setLoading(false) }
SetProviderError(S, err) ==
    IF S.provider # "mounted" THEN S
    ELSE [S EXCEPT !.loading = FALSE,
                   !.error = IF err.name # "AbortError" THEN err.message ELSE @]

\* a catch that shows every error, the AbortError too
SetLessonErrorAlways(S, live, err) ==
    IF ~live THEN S
    ELSE [S EXCEPT !.contentLoading = FALSE, !.contentError = err.message]

\* catch (err) { ... setContentError(err.message) } finally { setContentLoading(false) }
SetLessonError(S, live, err) ==
    IF ~live THEN S
    ELSE [S EXCEPT !.contentLoading = FALSE,
                   !.contentError = IF err.name # "AbortError" THEN err.message ELSE @]

\* the catch of the loaders (content.ts 43-48, 90-95): an AbortError is thrown
\* on, anything else is wrapped
ManifestCatch(e) ==
    IF e.isError /\ e.name = "AbortError" THEN e
    ELSE [isError |-> TRUE, name |-> "Error",
          message |-> <<"Failed to load content manifest",
                        IF e.isError THEN e.message ELSE "Unknown error">>]
LessonCatch(slug, e) ==
    IF e.isError /\ e.name = "AbortError" THEN e
    ELSE [isError |-> TRUE, name |-> "Error",
          message |-> <<"Failed to load lesson", slug,
                        IF e.isError THEN e.message ELSE "Unknown error">>]

\* what fetch and the response body can throw
HttpError == [isError |-> TRUE, name |-> "Error", message |-> "Failed to fetch: status"]
NetworkError == [isError |-> TRUE, name |-> "TypeError", message |-> "Failed to fetch"]
JsonError == [isError |-> TRUE, name |-> "SyntaxError", message |-> "Unexpected token"]
\* (its message is never wrapped by a loader: written as a message in full)
AbortError ==
    [isError |-> TRUE, name |-> "AbortError", message |-> <<"The operation was aborted">>]
\* controller.abort() with no reason: the signal's reason is an AbortError
AbortWithoutReason == AbortError
\* controller.abort('Request timeout'): fetch rejects with the reason, a string
\*                                                             (content.ts 239)
TimeoutReason == [isError |-> FALSE, name |-> "-", message |-> "Request timeout"]
\* what sessionStorage throws: getItem when storage is denied, setItem when
\* the quota is exceeded
StorageReadError ==
    [isError |-> TRUE, name |-> "SecurityError", message |-> "The operation is insecure"]
StorageWriteError ==
    [isError |-> TRUE, name |-> "QuotaExceededError", message |-> "The quota has been exceeded"]

\* manifest?.lessons.find(l => l.slug === slug)          (Lesson.tsx 25)
FindLesson(m, slug) ==
    IF m = NoManifest THEN NoLesson
    ELSE LET idx == {i \in 1..Len(m.lessons) : m.lessons[i].slug = slug}
         IN  IF idx = {} THEN NoLesson
             ELSE m.lessons[CHOOSE i \in idx : \A j \in idx : i <= j]

\* loadContent up to its await, with fetchLessonContent up to its await
\* (Lesson.tsx 36-44, content.ts 56-72); on a cache hit the call returns and
\* loadContent runs on to its end
StartLessonFetch(S, lesson) ==
    LET id  == S.nextId
        key == LessonKey(lesson.slug)
        S1  == [S EXCEPT !.contentLoading = TRUE,
                         !.contentError = NoError]
    IN  IF S.storageFault = "read"
        THEN SetLessonError([S1 EXCEPT !.lastDone = [how |-> "failed", key |-> key]],
                            TRUE, LessonCatch(lesson.slug, StorageReadError))
        ELSE IF ParseThrows(S.storage[key])
        THEN SetLessonError([S1 EXCEPT !.lastDone = [how |-> "failed", key |-> key]],
                            TRUE, LessonCatch(lesson.slug, JsonError))
        ELSE IF CacheHit(S.storage, key, S.now)
        THEN [S1 EXCEPT
                !.lessonContent = [markdown |-> Parse(S.storage[key]).content,
                                   headings |-> Parse(S.storage[key]).headings],
                !.contentLoading = FALSE,
                !.effectCall = 0,
                !.lastDone = [how |-> "hit", key |-> key]]
        ELSE [S1 EXCEPT
                !.calls = AddCall(S.calls, id,
                              [kind |-> "lesson", slug |-> lesson.slug,
                               owner |-> "lesson", pc |-> "fetch",
                               aborted |-> FALSE, live |-> TRUE]),
                !.effectCall = id,
                !.timers = SetTimer(S.timers, id, "armed"),
                !.nextId = id + 1,
                !.lastDone = [how |-> "miss", key |-> key]]

\* an effect whose cleanup aborts nothing
LessonCleanupNoAbort(S) == [S EXCEPT !.effectCall = 0]

\* return () => { controller.abort() }                   (Lesson.tsx 59-61)
LessonCleanup(S) ==
    [S EXCEPT !.calls = AbortController(S.calls, S.effectCall), !.effectCall = 0]

\* useEffect(..., [lesson]) when a render gave a new `lesson`: the cleanup of
\* the previous run, then the effect                      (Lesson.tsx 33-62)
LessonEffect(S) ==
    LET lesson == FindLesson(S.manifest, S.route)
    IN  IF S.route \notin Slugs THEN S
        ELSE IF lesson = NoLesson THEN LessonCleanup(S)
        ELSE StartLessonFetch(LessonCleanup(S), lesson)

\* setManifest(manifestData) ... finally setLoading(false); the manifest is a
\* freshly parsed object, so every lesson in it is a new object (part_004 32-41)
DeliverManifest(S, data) ==
    IF S.provider # "mounted" THEN S
    ELSE LessonEffect([S EXCEPT !.manifest = data, !.loading = FALSE])

\* a catch that writes an entry under the key before it throws
ThrowAfterStoring(S, id, e) ==
    LET c   == S.calls[id]
        key == IF c.kind = "manifest" THEN MANIFEST_CACHE_KEY ELSE LessonKey(c.slug)
        S1  == Settled(S, id, [how |-> "failed", key |-> key])
        S2  == [S1 EXCEPT !.storage[key] =
                    IF c.kind = "manifest"
                    THEN Stringify([data |-> NoManifest, timestamp |-> S.now])
                    ELSE Stringify([content |-> <<>>, timestamp |-> S.now,
                                    headings |-> <<>>])]
    IN  IF c.kind = "manifest"
        THEN SetProviderError(S2, ManifestCatch(e))
        ELSE SetLessonError(S2, c.live, LessonCatch(c.slug, e))

\* the awaited call throws e: the loader's catch, then the caller's
Throw(S, id, e) ==
    LET c   == S.calls[id]
        key == IF c.kind = "manifest" THEN MANIFEST_CACHE_KEY ELSE LessonKey(c.slug)
        how == [how |-> IF e.isError /\ e.name = "AbortError" THEN "silent" ELSE "failed",
                key |-> key]
        S1  == Settled(S, id, how)
    IN  IF c.kind = "manifest"
        THEN SetProviderError(S1, ManifestCatch(e))
        ELSE SetLessonError(S1, c.live, LessonCatch(c.slug, e))

\* refetch, or loadContent of the mount effect, up to its await, with
\* fetchContentManifest up to its await (part_004 24-31, 45-52; content.ts 17-28)
StartManifestFetch(S, owner) ==
    LET id == S.nextId
        S1 == [S EXCEPT !.loading = TRUE, !.error = NoError]
    IN  IF S.storageFault = "read"
        THEN SetProviderError(
                 [S1 EXCEPT !.lastDone = [how |-> "failed", key |-> MANIFEST_CACHE_KEY]],
                 ManifestCatch(StorageReadError))
        ELSE IF ParseThrows(S.storage[MANIFEST_CACHE_KEY])
        THEN SetProviderError(
                 [S1 EXCEPT !.lastDone = [how |-> "failed", key |-> MANIFEST_CACHE_KEY]],
                 ManifestCatch(JsonError))
        ELSE IF CacheHit(S.storage, MANIFEST_CACHE_KEY, S.now)
        THEN DeliverManifest(
                 [S1 EXCEPT !.lastDone = [how |-> "hit", key |-> MANIFEST_CACHE_KEY]],
                 Parse(S.storage[MANIFEST_CACHE_KEY]).data)
        ELSE [S1 EXCEPT
                !.calls = AddCall(S.calls, id,
                              [kind |-> "manifest", slug |-> "-", owner |-> owner,
                               pc |-> "fetch", aborted |-> FALSE, live |-> TRUE]),
                !.providerCall = IF owner = "effect" THEN id ELSE @,
                !.timers = SetTimer(S.timers, id, "armed"),
                !.nextId = id + 1,
                !.lastDone = [how |-> "miss", key |-> MANIFEST_CACHE_KEY]]

\* const manifest = await response.json(); sessionStorage.setItem(...); return
\* manifest                                               (content.ts 34-42)
StoreManifest(S, id, body) ==
    LET S1 == Settled(S, id, [how |-> "stored", key |-> MANIFEST_CACHE_KEY])
        S2 == [S1 EXCEPT !.storage[MANIFEST_CACHE_KEY] =
                            Stringify([data |-> body, timestamp |-> S.now])]
    IN  IF S.storageFault = "write" THEN Throw(S, id, StorageWriteError)
        ELSE DeliverManifest(S2, body)

\* const markdown = await response.text(); ... return { markdown, headings }
\* (content.ts 78-89), then setLessonContent(content) ... finally (Lesson.tsx 44-54)
StoreLesson(S, id) ==
    LET c   == S.calls[id]
        md  == LessonFile(c.slug)
        hs  == extractHeadings(md)
        key == LessonKey(c.slug)
        S1  == Settled(S, id, [how |-> "stored", key |-> key])
        S2  == [S1 EXCEPT !.storage[key] =
                    Stringify([content |-> md, timestamp |-> S.now, headings |-> hs])]
    IN  IF S.storageFault = "write" THEN Throw(S, id, StorageWriteError)
        ELSE IF c.live
        THEN [S2 EXCEPT !.lessonContent = [markdown |-> md, headings |-> hs],
                        !.contentLoading = FALSE]
        ELSE S2

---------------------------------------------------------------------------
(* Actions                                                                 *)

LStart ==
    /\ now = TickMs
    /\ storage = [k \in StorageKeys |-> NoEntry]
    /\ calls = [c \in Ids |-> NoCall]
    /\ nextId = 1
    /\ provider = "new" /\ providerCall = 0
    /\ manifest = NoManifest /\ loading = TRUE /\ error = NoError
    /\ route = "home" /\ effectCall = 0
    /\ lessonContent = NoContent /\ contentLoading = FALSE /\ contentError = NoError
    /\ lastDone = NothingDone
    /\ timers = [c \in Ids |-> "none"]

\* sessionStorage works
LInit == LStart /\ storageFault = "none"

\* sessionStorage may be denied or full for the whole session
LInitStorageFault == LStart /\ storageFault \in {"none", "read", "write"}

\* ContentProvider mounts: useEffect(..., [])             (part_004 44-66)
ProviderEffect ==
    /\ provider = "new"
    /\ Commit(StartManifestFetch([Cur EXCEPT !.provider = "mounted"], "effect"))
    /\ UNCHANGED <<hvars, rvars, pvars>>

\* a consumer of the context calls refetch()              (part_004 24-42)
Refetch ==
    /\ provider = "mounted"
    /\ Commit(StartManifestFetch(Cur, "refetch"))
    /\ UNCHANGED <<hvars, rvars, pvars>>

\* the route changes: Lesson mounts, gets another slug, or unmounts
Navigate ==
    /\ provider = "mounted"
    /\ \E r \in {"home"} \cup Slugs :
        /\ r # route
        /\ IF r = "home"
           THEN Commit([LessonCleanup(Cur) EXCEPT
                    !.route = r,
                    !.calls = [c \in Ids |-> IF @[c].kind = "lesson"
                                             THEN [@[c] EXCEPT !.live = FALSE] ELSE @[c]],
                    !.lessonContent = NoContent,
                    !.contentLoading = FALSE,
                    !.contentError = NoError])
           ELSE Commit(LessonEffect([Cur EXCEPT !.route = r]))
    /\ UNCHANGED <<hvars, rvars, pvars>>

\* the application is torn down: the cleanups of both effects run
\* (part_004 67-69, Lesson.tsx 59-61)
ProviderUnmount ==
    /\ provider = "mounted"
    /\ LET S1 == LessonCleanup(Cur)
           cs == AbortController(S1.calls, S1.providerCall)
       IN  Commit([S1 EXCEPT
                    !.provider = "unmounted",
                    !.providerCall = 0,
                    !.calls = [c \in Ids |-> [cs[c] EXCEPT !.live = FALSE]],
                    !.route = "home",
                    !.manifest = NoManifest, !.loading = TRUE, !.error = NoError,
                    !.lessonContent = NoContent, !.contentLoading = FALSE,
                    !.contentError = NoError])
    /\ UNCHANGED <<hvars, rvars, pvars>>

\* the response arrives: await fetch(...) returns; if (!response.ok) throw
FetchResolve ==
    /\ \E id \in Ids, ok \in BOOLEAN :
        /\ calls[id].pc = "fetch"
        /\ ~SignalAborted(calls[id])
        /\ IF ok
           THEN Commit([Cur EXCEPT !.calls[id].pc = "body"])
           ELSE Commit(Throw(Cur, id, HttpError))
    /\ UNCHANGED <<hvars, rvars, pvars>>

\* the transport fails, before the response or while its body is read
FetchReject ==
    /\ \E id \in Ids :
        /\ calls[id].pc \in {"fetch", "body"}
        /\ ~SignalAborted(calls[id])
        /\ Commit(Throw(Cur, id, NetworkError))
    /\ UNCHANGED <<hvars, rvars, pvars>>

\* the body of the manifest response has been read and is well-formed JSON
ManifestBody ==
    /\ \E id \in Ids, body \in ManifestBodies :
        /\ calls[id].pc = "body" /\ calls[id].kind = "manifest"
        /\ ~SignalAborted(calls[id])
        /\ Commit(StoreManifest(Cur, id, body))
    /\ UNCHANGED <<hvars, rvars, pvars>>

\* the body of the manifest response is not JSON: response.json() throws
ManifestMalformed ==
    /\ \E id \in Ids :
        /\ calls[id].pc = "body" /\ calls[id].kind = "manifest"
        /\ ~SignalAborted(calls[id])
        /\ Commit(Throw(Cur, id, JsonError))
    /\ UNCHANGED <<hvars, rvars, pvars>>

\* the body of the lesson response has been read
LessonBody ==
    /\ \E id \in Ids :
        /\ calls[id].pc = "body" /\ calls[id].kind = "lesson"
        /\ ~SignalAborted(calls[id])
        /\ Commit(StoreLesson(Cur, id))
    /\ UNCHANGED <<hvars, rvars, pvars>>

\* the awaited promise of an aborted call rejects with an AbortError
AbortSettle ==
    /\ \E id \in Ids :
        /\ calls[id].pc # "none"
        /\ SignalAborted(calls[id])
        /\ Commit(Throw(Cur, id, AbortError))
    /\ UNCHANGED <<hvars, rvars, pvars>>

\* the timer of createAbortController fires: controller.abort('Request
\* timeout'), and the awaited promise rejects with that reason (content.ts 237-241)
Timeout ==
    /\ \E id \in Ids :
        /\ timers[id] = "due"
        /\ calls[id].pc # "none"
        /\ ~calls[id].aborted
        /\ Commit([Throw(Cur, id, TimeoutReason) EXCEPT
                        !.timers = SetTimer(timers, id, "none")])
    /\ UNCHANGED <<hvars, rvars, pvars>>

\* the timer fires for a controller that is aborted already, where the
\* callback does nothing, or whose call has settled, where the abort
\* reaches nothing                                          (content.ts 237-241)
TimerLapses ==
    /\ \E id \in Ids :
        /\ timers[id] = "due"
        /\ calls[id].pc = "none" \/ calls[id].aborted
        /\ Commit([Cur EXCEPT !.timers = SetTimer(timers, id, "none")])
    /\ UNCHANGED <<hvars, rvars, pvars>>

\* time passes
Tick ==
    /\ now < MaxTicks * TickMs
    /\ now' = now + TickMs
    /\ timers' = Elapse(timers, TickMs)
    /\ UNCHANGED <<storage, calls, nextId, provider, providerCall, manifest,
                   loading, error, route, effectCall, lessonContent,
                   contentLoading, contentError, lastDone, storageFault>>
    /\ UNCHANGED <<hvars, rvars, pvars>>

---------------------------------------------------------------------------
(* fetchContentManifest(signal) and fetchLessonContent(lesson, signal)     *)
(* called directly, with a signal that may be aborted already              *)

SlugOfKey(key) == CHOOSE sl \in Slugs : LessonKey(sl) = key

\* a cache entry whose headings were not extracted from its content
LessonCacheEntryNoHeadings(md, t) ==
    [content |-> md, timestamp |-> t, headings |-> <<>>]

\* const cacheEntry: LessonCacheEntry = { content, timestamp, headings }
\*                                                         (content.ts 79-86)
LessonCacheEntry(md, t) ==
    [content |-> md, timestamp |-> t, headings |-> extractHeadings(md)]

\* return { markdown: parsedCache.content, headings: parsedCache.headings }
\*                                                         (content.ts 64-67)
CachedLesson(parsedCache) ==
    [markdown |-> parsedCache.content, headings |-> parsedCache.headings]

\* the catch of the loader that owns the key    (content.ts 43-48, 90-95)
LoaderCatch(key, e) ==
    IF key = MANIFEST_CACHE_KEY THEN ManifestCatch(e) ELSE LessonCatch(SlugOfKey(key), e)

\* the call up to its first await: the cache is read, the signal is not
\* (content.ts 19-28, 60-72)
DirectCall ==
    /\ direct.outcome # "pending"
    /\ \E key \in Keys, ab \in BOOLEAN :
        LET d == [NoDirectCall EXCEPT !.key = key, !.atCall = ab, !.aborted = ab]
        IN  direct' =
              IF ParseThrows(storage[key])
              THEN [d EXCEPT !.outcome = "threw", !.cause = "cache",
                             !.error = LoaderCatch(key, JsonError)]
              ELSE IF CacheHit(storage, key, now)
              THEN [d EXCEPT !.outcome = "returned", !.cause = "hit",
                             !.value = IF key = MANIFEST_CACHE_KEY
                                       THEN Parse(storage[key]).data
                                       ELSE CachedLesson(Parse(storage[key]))]
              ELSE [d EXCEPT !.outcome = "pending"]
    /\ UNCHANGED <<hvars, rvars, lvars, tvars, svars, nvars>>

\* the caller aborts the signal while the call is pending
DirectAbort ==
    /\ direct.outcome = "pending" /\ ~direct.aborted
    /\ direct' = [direct EXCEPT !.aborted = TRUE]
    /\ UNCHANGED <<hvars, rvars, lvars, tvars, svars, nvars>>

\* what the server answers: a failure status, a body that is not JSON (the
\* manifest only: a lesson is read as text), or a body
Responses(key) ==
    IF key = MANIFEST_CACHE_KEY THEN {"http", "json", "ok"} ELSE {"http", "ok"}

\* the response arrives: not ok, the call throws; the body is not JSON,
\* response.json() throws; else the body is stored and returned, whatever
\* its shape (content.ts 30-42, 74-89)
DirectResponse ==
    /\ direct.outcome = "pending" /\ ~SignalAborted(direct)
    /\ \E resp \in Responses(direct.key), body \in ManifestBodies :
          IF resp # "ok"
          THEN /\ direct' = [direct EXCEPT
                    !.outcome = "threw", !.cause = resp,
                    !.error = LoaderCatch(direct.key,
                                  IF resp = "http" THEN HttpError ELSE JsonError)]
               /\ UNCHANGED storage
          ELSE IF direct.key = MANIFEST_CACHE_KEY
          THEN /\ direct' = [direct EXCEPT
                    !.outcome = "returned", !.value = body,
                    !.cause = IF body = GoodManifest THEN "ok" ELSE "shape"]
               /\ storage' = [storage EXCEPT ![direct.key] =
                                  Stringify([data |-> body, timestamp |-> now])]
          ELSE LET entry == LessonCacheEntry(LessonFile(SlugOfKey(direct.key)), now)
               IN  /\ direct' = [direct EXCEPT
                        !.outcome = "returned", !.cause = "ok",
                        !.value = [markdown |-> entry.content,
                                   headings |-> entry.headings]]
                   /\ storage' = [storage EXCEPT ![direct.key] = Stringify(entry)]
    /\ UNCHANGED <<now, calls, nextId, provider, providerCall, manifest, loading,
                   error, route, effectCall, lessonContent, contentLoading,
                   contentError, lastDone, storageFault, timers>>
    /\ UNCHANGED <<hvars, rvars, tvars, svars, nvars>>

\* fetch rejects with the AbortError of the aborted signal, which the loader
\* throws on (content.ts 44-46, 91-93)
DirectAborted ==
    /\ direct.outcome = "pending" /\ SignalAborted(direct)
    /\ direct' = [direct EXCEPT !.outcome = "aborted", !.cause = "abort",
                                !.error = LoaderCatch(direct.key, AbortError)]
    /\ UNCHANGED <<hvars, rvars, lvars, tvars, svars, nvars>>

\* clearContentCache(): every key that is the manifest's or starts with the
\* lesson prefix is removed                               (content.ts 189-196)
HasLessonPrefix(key) == \E sl \in Slugs \cup {"s0"} : key = LessonKey(sl)
clearManifestOnly(st) ==
    [k \in DOMAIN st |-> IF k = MANIFEST_CACHE_KEY THEN NoEntry ELSE st[k]]
clearContentCache(st) ==
    [k \in DOMAIN st |->
        IF k = MANIFEST_CACHE_KEY \/ HasLessonPrefix(k) THEN NoEntry ELSE st[k]]

ClearContentCache ==
    /\ direct.outcome # "pending"
    /\ storage' = clearContentCache(storage)
    /\ lastDone' = [how |-> "cleared", key |-> "-"]
    /\ UNCHANGED <<now, calls, nextId, provider, providerCall, manifest, loading,
                   error, route, effectCall, lessonContent, contentLoading,
                   contentError, storageFault, timers>>
    /\ UNCHANGED <<hvars, rvars, pvars>>

\* something else in the page writes an item under a key of its own, or an
\* entry is left from a lesson that is no longer in the manifest
OtherItem == [has |-> TRUE, json |-> "other"]
ForeignSetItem ==
    /\ \E k \in StorageKeys \ Keys :
          /\ ~storage[k].has
          /\ storage' = [storage EXCEPT ![k] = OtherItem]
    /\ UNCHANGED <<now, calls, nextId, provider, providerCall, manifest, loading,
                   error, route, effectCall, lessonContent, contentLoading,
                   contentError, lastDone, storageFault, timers>>
    /\ UNCHANGED <<hvars, rvars, pvars>>

---------------------------------------------------------------------------
(* Home's lesson list and getLessonNavigation, on manifests whose lessons  *)
(* have distinct slugs and distinct orders, in any arrangement             *)

MaxLessons == 3        \* lessons of a manifest
NavSlugNames == <<"s1", "s2", "s3", "s4">>
NavSlugs == {NavSlugNames[i] : i \in 1..MaxLessons}
Undefined == "undefined"

\* manifest.lessons.findIndex(lesson => lesson.slug === currentSlug), 0 for -1
FindIndex(lessons, currentSlug) ==
    LET idx == {i \in 1..Len(lessons) : lessons[i].slug = currentSlug}
    IN  IF idx = {} THEN 0 ELSE CHOOSE i \in idx : \A j \in idx : i <= j

\* a navigation that wraps around at both ends of the list
getLessonNavigationWrapping(lessons, currentSlug) ==
    LET currentIndex == FindIndex(lessons, currentSlug)
    IN  IF currentIndex = 0
        THEN [previous |-> Undefined, next |-> Undefined]
        ELSE [previous |-> lessons[IF currentIndex > 1 THEN currentIndex - 1
                                   ELSE Len(lessons)].slug,
              next     |-> lessons[IF currentIndex < Len(lessons) THEN currentIndex + 1
                                   ELSE 1].slug]

getLessonNavigation(lessons, currentSlug) ==
    LET currentIndex == FindIndex(lessons, currentSlug)
    IN  IF currentIndex = 0
        THEN [previous |-> Undefined, next |-> Undefined]
        ELSE [previous |-> IF currentIndex > 1
                           THEN lessons[currentIndex - 1].slug ELSE Undefined,
              next     |-> IF currentIndex < Len(lessons)
                           THEN lessons[currentIndex + 1].slug ELSE Undefined]

NInit == navLessons = <<>> /\ homeList = <<>> /\ navigation = <<>> /\ pcN = "input"

\* the manifest has one more lesson, after the others
AddLesson ==
    /\ pcN = "input"
    /\ Len(navLessons) < MaxLessons
    /\ \E o \in 1..MaxLessons, sl \in NavSlugs :
          /\ \A i \in 1..Len(navLessons) :
                navLessons[i].order # o /\ navLessons[i].slug # sl
          /\ navLessons' = Append(navLessons, [order |-> o, slug |-> sl])
    /\ UNCHANGED <<homeList, navigation, pcN, hvars, rvars, lvars, tvars, svars, direct>>

\* {manifest.lessons.map((lesson) => ...)}                (Home.tsx 103)
RenderHome ==
    /\ pcN = "input"
    /\ homeList' = [i \in 1..Len(navLessons) |-> navLessons[i].slug]
    /\ pcN' = "home"
    /\ UNCHANGED <<navLessons, navigation, hvars, rvars, lvars, tvars, svars, direct>>

\* getLessonNavigation(manifest, lesson.slug)             (Lesson.tsx 26)
GetNavigation ==
    /\ pcN = "input"
    /\ \E sl \in NavSlugs :
          navigation' = [current |-> sl] @@ getLessonNavigation(navLessons, sl)
    /\ pcN' = "lesson"
    /\ UNCHANGED <<navLessons, homeList, hvars, rvars, lvars, tvars, svars, direct>>

NNext == AddLesson \/ RenderHome \/ GetNavigation

DNext == DirectCall \/ DirectAbort \/ DirectResponse \/ DirectAborted \/ Tick

Next ==
    \/ ProviderEffect \/ Refetch \/ Navigate \/ ProviderUnmount
    \/ FetchResolve \/ FetchReject \/ ManifestBody \/ ManifestMalformed
    \/ LessonBody \/ AbortSettle \/ Timeout \/ TimerLapses \/ Tick

vars == <<hvars, rvars, lvars, pvars>>

Init == LInit /\ HIdle /\ RIdle /\ PIdle

Spec == Init /\ [][Next]_vars

HNext == AppendLine \/ Extract

InitStorageFault == LInitStorageFault /\ HIdle /\ RIdle /\ PIdle

SpecStorageFault == InitStorageFault /\ [][Next]_vars

TNext == PushHeading \/ BuildTree

InitTree == TInit /\ HIdle /\ RIdle /\ LInit /\ SIdle /\ NIdle /\ DIdle

SpecTree == InitTree /\ [][TNext]_vars

SNext == TypeText \/ Slugify

InitSlug == SInit /\ HIdle /\ RIdle /\ LInit /\ TIdle /\ NIdle /\ DIdle

SpecSlug == InitSlug /\ [][SNext]_vars

InitLoader == LInit /\ HIdle /\ RIdle /\ PIdle

SpecLoader == InitLoader /\ [][DNext]_vars

\* the loaders and clearContentCache called directly, on a sessionStorage
\* that also holds items the loaders do not own
CNext == DirectCall \/ DirectResponse \/ ClearContentCache \/ ForeignSetItem \/ Tick
InitCache == LInit /\ HIdle /\ RIdle /\ PIdle
SpecCache == InitCache /\ [][CNext]_vars

\* the loaders called directly on a sessionStorage whose entries under the
\* cache keys may be text that is not JSON
InitCorruptCache ==
    /\ now = TickMs
    /\ storage \in [StorageKeys -> {NoEntry, Truncated}]
    /\ \A k \in StorageKeys \ Keys : ~storage[k].has
    /\ calls = [c \in Ids |-> NoCall]
    /\ nextId = 1
    /\ provider = "new" /\ providerCall = 0
    /\ manifest = NoManifest /\ loading = TRUE /\ error = NoError
    /\ route = "home" /\ effectCall = 0
    /\ lessonContent = NoContent /\ contentLoading = FALSE /\ contentError = NoError
    /\ lastDone = NothingDone
    /\ timers = [c \in Ids |-> "none"]
    /\ storageFault = "none"
    /\ HIdle /\ RIdle /\ PIdle
SpecCorruptCache == InitCorruptCache /\ [][DNext]_vars

InitNav == NInit /\ HIdle /\ RIdle /\ LInit /\ TIdle /\ SIdle /\ DIdle

SpecNav == InitNav /\ [][NNext]_vars

InitHeadings == HInit /\ RIdle /\ LInit /\ PIdle

SpecHeadings == InitHeadings /\ [][HNext]_vars

RNext == TypeChar \/ ProcessMarkdown \/ ProcessThrows \/ ChangeMarkdown

InitRender == RInit /\ HIdle /\ LInit /\ PIdle

SpecRender == InitRender /\ [][RNext]_vars

MNext == MountRenderer \/ SetMarkdown \/ RunResolves \/ RunRejects
InitRenderer == RendererInit /\ HIdle /\ LInit /\ PIdle
SpecRenderer == InitRenderer /\ [][MNext]_vars

\* the component mounts when its parent has rendered it, and a pipeline that
\* was started settles
SpecRendererLive ==
    /\ InitRenderer /\ [][MNext]_vars
    /\ WF_vars(MountRenderer)
    /\ WF_vars(RunResolves \/ RunRejects)

---------------------------------------------------------------------------
(* Claims about rendering                                                  *)

\* C1: raw HTML written in the Markdown source never reaches processedHtml as
\* live markup: every '<' of the source is escaped in the string that is
\* injected into the page.
C1_RawHtmlIsEscaped ==
    pcR = "done" => \A i \in 1..Len(processedHtml) : processedHtml[i] # "<"

---------------------------------------------------------------------------
(* Claims about heading extraction                                         *)

LineOf(md, pos) == LineCount(SubSeq(md, 1, pos - 1))

\* the lines strictly between an opening fence and the fence that closes it
FencedLines(md) ==
    LET ls == SplitLines(md)
        fs == SelectSeq([i \in 1..Len(ls) |-> i], LAMBDA i : IsFenceLine(ls[i]))
    IN  { i \in 1..Len(ls) :
            \E k \in 1..Len(fs) : k % 2 = 1 /\ k < Len(fs) /\ fs[k] < i /\ i < fs[k + 1] }

\* a match that starts on a line between two fences, where the line by itself
\* has the form '## text'
FencedHeadingLine(md, m) ==
    LET k == LineOf(md, m.start)
    IN  k \in FencedLines(md) /\ MatchAt(SplitLines(md)[k], 1).ok

\* C2: extractHeadings returns no heading for a line inside a fenced code
\* block: a line of the form '## text' between an opening and a closing fence
\* has no entry, so the entries are the matches on the other lines.
C2_NoHeadingInsideFence ==
    pcH = "done" =>
        LET ms == ScanMatches(markdown, 1)
        IN  Len(Preorder(headings)) =
                Cardinality({ i \in 1..Len(ms) : ~FencedHeadingLine(markdown, ms[i]) })

TocDepth(h) == h.depth \in 2..4
Shape(hs) == [i \in 1..Len(hs) |-> [depth |-> hs[i].depth, text |-> hs[i].text]]

\* C8: for every heading of depth 2 to 4, the id of the TOC entry equals the
\* id attribute that the rehype-slug stage gives the heading element.
C8_TocIdsEqualElementIds ==
    pcH = "done" =>
        LET toc == Preorder(headings)
            els == SelectSeq(PipelineHeadings(markdown), TocDepth)
        IN  Shape(toc) = Shape(els) =>
                \A i \in 1..Len(toc) : toc[i].id = els[i].id

\* C9: the heading ids of one document are pairwise distinct.
C9_HeadingIdsDistinct ==
    pcH = "done" =>
        LET toc == Preorder(headings)
        IN  \A i, j \in 1..Len(toc) : i # j => toc[i].id # toc[j].id

---------------------------------------------------------------------------
(* Claims about the loaders, the cache and the components                  *)

InFlight(cs, id) == cs[id].pc # "none"
Settles(id) == InFlight(calls, id) /\ ~InFlight(calls', id)
LessonResult(slug) ==
    [markdown |-> LessonFile(slug), headings |-> extractHeadings(LessonFile(slug))]

\* C3: a lesson call whose signal was aborted before it completed writes
\* nothing to the cache and gives its caller neither content nor an error; the
\* call that replaced it gives exactly one outcome, the content or an error.
C3_AbortedCallWritesNothing ==
    [][\A id \in Ids :
        (calls[id].kind = "lesson" /\ Settles(id)) =>
            IF calls[id].aborted
            THEN /\ storage' = storage
                 /\ lessonContent' = lessonContent
                 /\ contentError' = contentError
            ELSE calls[id].live =>
                    \/ /\ lessonContent' = LessonResult(calls[id].slug)
                       /\ contentError' = NoError
                    \/ /\ lessonContent' = lessonContent
                       /\ contentError' # NoError]_vars

\* the first of two calls for s1 has been aborted and has settled in silence,
\* the second is still in flight, and nothing is stored for s1
C3_Witness ==
    /\ lastDone = [how |-> "silent", key |-> LessonKey("s1")]
    /\ ~storage[LessonKey("s1")].has
    /\ lessonContent = NoContent /\ contentError = NoError
    /\ \E id \in Ids : /\ calls[id].kind = "lesson" /\ calls[id].slug = "s1"
                       /\ InFlight(calls, id) /\ ~calls[id].aborted

ThirtyMinutes == 30 * 60 * 1000
EntryValid(key) ==
    storage[key].has /\ now - Parse(storage[key]).timestamp < ThirtyMinutes
StartsFetch(kind, slug) ==
    \E id \in Ids : /\ ~InFlight(calls, id)
                    /\ calls'[id].kind = kind /\ calls'[id].slug = slug
                    /\ calls'[id].pc = "fetch"
StartsNoFetch(kind) ==
    \A id \in Ids : calls'[id].kind = kind => calls[id].kind = kind

\* C4: a loader returns the stored value without a network fetch exactly when
\* an entry exists under the key with now - timestamp < 30 minutes, and
\* otherwise issues a network fetch; entries change only when a fetch stores
\* its result, never with the passing of time.
C4_HitIffWithinTtl ==
    [][/\ (ProviderEffect \/ Refetch) =>
            IF EntryValid(MANIFEST_CACHE_KEY)
            THEN /\ manifest' = Parse(storage[MANIFEST_CACHE_KEY]).data
                 /\ StartsNoFetch("manifest")
            ELSE StartsFetch("manifest", "-")
       /\ (Navigate /\ route' \in Slugs /\ FindLesson(manifest, route') # NoLesson) =>
            IF EntryValid(LessonKey(route'))
            THEN /\ lessonContent' =
                        [markdown |-> Parse(storage[LessonKey(route')]).content,
                         headings |-> Parse(storage[LessonKey(route')]).headings]
                 /\ StartsNoFetch("lesson")
            ELSE StartsFetch("lesson", route')
       /\ storage' # storage => (ManifestBody \/ LessonBody)]_vars

\* the manifest was read when its entry was 30 minutes old or older: a miss
C4_Witness ==
    /\ lastDone = [how |-> "miss", key |-> MANIFEST_CACHE_KEY]
    /\ storage[MANIFEST_CACHE_KEY].has
    /\ now - Parse(storage[MANIFEST_CACHE_KEY]).timestamp >= ThirtyMinutes

EntryIsPayload(st, key) ==
    IF key = MANIFEST_CACHE_KEY
    THEN Parse(st[key]).data \in ManifestBodies
    ELSE \E sl \in Slugs : key = LessonKey(sl) /\ Parse(st[key]).content = LessonFile(sl)

\* C5: a fetch that fails (non-success response, transport failure, manifest
\* body that does not parse) throws to its caller and leaves the cache as it
\* was; an entry of the cache is always a payload that was fetched.
C5_FailureIsNotCached ==
    [][/\ \A id \in Ids :
            (Settles(id) /\ lastDone'.how = "failed") =>
                /\ storage' = storage
                /\ (calls[id].kind = "manifest" /\ provider = "mounted") =>
                        error' # NoError /\ manifest' = manifest
                /\ (calls[id].kind = "lesson" /\ calls[id].live) =>
                        contentError' # NoError /\ lessonContent' = lessonContent
       /\ \A key \in Keys : storage'[key].has => EntryIsPayload(storage', key)]_vars

\* the manifest fetch has failed, the error is shown and nothing is stored
C5_Witness ==
    /\ lastDone = [how |-> "failed", key |-> MANIFEST_CACHE_KEY]
    /\ error # NoError
    /\ ~storage[MANIFEST_CACHE_KEY].has

LiveLessonFetches(slug) ==
    { id \in Ids : /\ calls[id].kind = "lesson" /\ calls[id].slug = slug
                   /\ InFlight(calls, id) /\ ~calls[id].aborted }

\* C6: at most one lesson fetch that has not been aborted is in flight for a
\* slug.
C6_OneLiveFetchPerSlug ==
    \A sl \in Slugs : Cardinality(LiveLessonFetches(sl)) <= 1

\* two fetches for one slug are in flight, the earlier one aborted
C6_Witness ==
    \E i, j \in Ids :
        /\ i < j
        /\ calls[i].kind = "lesson" /\ calls[j].kind = "lesson"
        /\ calls[i].slug = calls[j].slug
        /\ InFlight(calls, i) /\ calls[i].aborted
        /\ InFlight(calls, j) /\ ~calls[j].aborted

\* C7: refetch cancels the manifest fetches that are outstanding when it is
\* called, so that the manifest key has one writer.
C7_RefetchCancelsEarlierFetch ==
    [][(Refetch /\ StartsFetch("manifest", "-")) =>
        \A id \in Ids :
            (calls[id].kind = "manifest" /\ InFlight(calls, id)) =>
                calls'[id].aborted]_vars

ManifestValid(m) ==
    /\ m.course # "undefined"
    /\ \A i, j \in 1..Len(m.lessons) :
            i # j => /\ m.lessons[i].slug # m.lessons[j].slug
                     /\ m.lessons[i].order # m.lessons[j].order

\* C10: a manifest that violates the required shape is neither returned to
\* the provider nor stored in the cache.
C10_InvalidManifestRejected ==
    /\ manifest # NoManifest => ManifestValid(manifest)
    /\ storage[MANIFEST_CACHE_KEY].has =>
            ManifestValid(Parse(storage[MANIFEST_CACHE_KEY]).data)

StorageMessages == {StorageReadError.message, StorageWriteError.message}

\* C11: a failure of sessionStorage, on read or on write, is never surfaced
\* to the caller of a loader: no error state carries the store's exception.
C11_StorageFailureNotSurfaced ==
    /\ error # NoError => error[2] \notin StorageMessages
    /\ contentError # NoError => contentError[3] \notin StorageMessages

---------------------------------------------------------------------------
(* Claims about buildHeadingTree                                           *)

\* the nearest preceding heading with strictly smaller depth (0: none)
NearestShallower(fl, i) ==
    LET c == {j \in 1..(i - 1) : fl[j].depth < fl[i].depth}
    IN  IF c = {} THEN 0 ELSE CHOOSE j \in c : \A k \in c : k <= j

AttachedTo(fl, p) ==
    SelectSeq([i \in 1..Len(fl) |-> i], LAMBDA i : NearestShallower(fl, i) = p)

RECURSIVE ExpectedNode(_, _)
ExpectedNode(fl, i) ==
    LET cs == AttachedTo(fl, i)
    IN  [id |-> fl[i].id, depth |-> fl[i].depth, text |-> fl[i].text,
         children |-> [k \in 1..Len(cs) |-> ExpectedNode(fl, cs[k])]]

ExpectedForest(fl) ==
    LET rs == AttachedTo(fl, 0)
    IN  [k \in 1..Len(rs) |-> ExpectedNode(fl, rs[k])]

RECURSIVE ChildrenDeeper(_)
ChildrenDeeper(forest) ==
    \A k \in 1..Len(forest) :
        /\ \A c \in 1..Len(forest[k].children) :
                forest[k].children[c].depth > forest[k].depth
        /\ ChildrenDeeper(forest[k].children)

Leaf(k, d) == [id |-> <<LowerCase[k]>>, depth |-> d, text |-> <<UpperCase[k]>>,
               children |-> <<>>]
ExampleDepths == <<2, 3, 3, 2, 4>>
ExampleForest ==
    << [Leaf(1, 2) EXCEPT !.children = <<Leaf(2, 3), Leaf(3, 3)>>],
       [Leaf(4, 2) EXCEPT !.children = <<Leaf(5, 4)>>] >>
DepthsOf(fl) == [i \in 1..Len(fl) |-> fl[i].depth]

\* C12: buildHeadingTree makes each heading the last child of the nearest
\* preceding heading of strictly smaller depth, or a root when there is none;
\* depths [2,3,3,2,4] with texts A..E give A[B,C], D[E]; every child is deeper
\* than its parent.
C12_TreeShape ==
    pcT = "done" =>
        /\ headingTree = ExpectedForest(flatHeadings)
        /\ DepthsOf(flatHeadings) = ExampleDepths => headingTree = ExampleForest
        /\ ChildrenDeeper(headingTree)

\* the tree of the example has been built
C12_Witness ==
    pcT = "done" /\ DepthsOf(flatHeadings) = ExampleDepths /\ Len(headingTree) = 2

---------------------------------------------------------------------------
(* More claims about heading extraction                                    *)

\* the line is `depth` times '#', then whitespace, then the text, all of it
\* on this line
LineIsHeading(line, depth, txt) ==
    /\ depth \in 2..4
    /\ Len(line) >= depth + 2
    /\ \A i \in 1..depth : line[i] = "#"
    /\ line[depth + 1] = " "
    /\ Trim(SubSeq(line, depth + 2, Len(line))) = txt

\* C13: extractHeadings yields a heading only for a line that starts with
\* exactly 2, 3 or 4 '#', followed by whitespace and the heading text on that
\* same line, with depth equal to the number of '#'.
C13_OnlyHeadingLines ==
    pcH = "done" =>
        LET hs == Preorder(headings)
            ls == SplitLines(markdown)
        IN  \A i \in 1..Len(hs) :
                \E k \in 1..Len(ls) : LineIsHeading(ls[k], hs[i].depth, hs[i].text)

---------------------------------------------------------------------------
(* Claims about generateHeadingId                                          *)

RECURSIVE TrimAllHyphens(_)
TrimAllHyphens(t) ==
    IF t # <<>> /\ Head(t) = "-" THEN TrimAllHyphens(Tail(t))
    ELSE IF t # <<>> /\ Last(t) = "-" THEN TrimAllHyphens(Front(t))
    ELSE t

\* lowercase; strip what is outside [a-z0-9\s-]; whitespace runs to single
\* hyphens; trim leading and trailing hyphens
CanonicalSlug(t) ==
    TrimAllHyphens(SpacesToHyphens(RemoveSpecial(ToLowerCase(t))))

\* C14: generateHeadingId returns exactly the result of the canonical slug
\* steps applied in order.
C14_IdIsCanonicalSlug ==
    pcS = "done" => headingId = CanonicalSlug(headingText)

---------------------------------------------------------------------------
(* Document order                                                          *)

\* the headings matched in the text, by increasing position
MatchedHeadings(md) ==
    LET ms == ScanMatches(md, 1)
    IN  [i \in 1..Len(ms) |->
            [id |-> generateHeadingId(Trim(ms[i].text)),
             depth |-> ms[i].level, text |-> Trim(ms[i].text)]]

\* C15: a pre-order walk of the forest returned by extractHeadings visits
\* exactly the matched headings, each once, in the order of the source text.
C15_PreorderIsDocumentOrder ==
    pcH = "done" =>
        LET ms == ScanMatches(markdown, 1)
        IN  /\ \A i, j \in 1..Len(ms) : i < j => ms[i].start < ms[j].start
            /\ Preorder(headings) = MatchedHeadings(markdown)

\* three headings, two of them nested under the first
C15_Witness ==
    /\ pcH = "done"
    /\ Len(Preorder(headings)) = 3
    /\ Len(headings) = 1
    /\ Len(headings[1].children) = 2

---------------------------------------------------------------------------
(* Cancellation                                                            *)

\* C16: a fetch aborted by its controller on navigation or unmount settles in
\* silence: it sets neither error state and delivers neither manifest nor
\* lesson content.
C16_CancellationIsSilent ==
    [][\A id \in Ids :
        (Settles(id) /\ calls[id].aborted) =>
            /\ error' = error /\ contentError' = contentError
            /\ manifest' = manifest /\ lessonContent' = lessonContent
            /\ lastDone'.how = "silent"]_vars

\* the fetch for s1 was aborted by the navigation to s2 and has settled:
\* Lesson shows no error
C16_Witness ==
    /\ lastDone = [how |-> "silent", key |-> LessonKey("s1")]
    /\ provider = "mounted" /\ route = "s2"
    /\ contentError = NoError /\ error = NoError

\* C17: a loader called with a signal that is aborted already returns no
\* result to its caller, on the path of the valid cache entry too.
C17_AbortedSignalGetsNoResult ==
    direct.atCall => direct.outcome # "returned"

---------------------------------------------------------------------------
(* Lesson order                                                            *)

OrderOf(lessons, sl) == lessons[FindIndex(lessons, sl)].order

\* the slug whose order is nearest to o, among the lower or the higher orders
NearestByOrder(lessons, o, Below) ==
    LET c == {i \in 1..Len(lessons) :
                IF Below THEN lessons[i].order < o ELSE lessons[i].order > o}
    IN  IF c = {} THEN Undefined
        ELSE lessons[CHOOSE i \in c : \A j \in c :
                        IF Below THEN lessons[j].order <= lessons[i].order
                        ELSE lessons[j].order >= lessons[i].order].slug

\* C18: Home lists the lessons by ascending order, and getLessonNavigation
\* returns the lessons of the next lower and the next higher order, for any
\* arrangement of the lessons array.
C18_OrderDefinesSequence ==
    /\ pcN = "home" =>
        \A i, j \in 1..Len(homeList) :
            i < j => OrderOf(navLessons, homeList[i]) < OrderOf(navLessons, homeList[j])
    /\ (pcN = "lesson" /\ FindIndex(navLessons, navigation.current) # 0) =>
        LET o == OrderOf(navLessons, navigation.current)
        IN  /\ navigation.previous = NearestByOrder(navLessons, o, TRUE)
            /\ navigation.next = NearestByOrder(navLessons, o, FALSE)

---------------------------------------------------------------------------
(* Render errors                                                           *)

\* C19: when Markdown processing throws, MarkdownRenderer presents the error
\* state; in every state where the error is set no HTML is displayed, neither
\* of the failed run nor of an earlier one.
C19_ErrorStateShowsNoMarkup ==
    [][/\ ProcessThrows => Displayed'.kind = "error"
       /\ renderError' # NoRenderError => Displayed'.kind # "html"]_vars

\* a run has thrown while the output of an earlier run is still held
C19_Witness ==
    /\ pcR = "done" /\ ~isLoading
    /\ renderError = ProcessFailedMessage
    /\ processedHtml # <<>>

---------------------------------------------------------------------------
\* C20: when the 30 s timer of a controller fires while its fetch is still in
\* flight and not aborted, the call is aborted and ends as a failure that the
\* mounted caller shows (an error message, loading over), with nothing
\* stored; when it fires for a call that has completed, or for a controller
\* aborted already, nothing that was loaded, stored or shown changes.
TimerFires(id) == timers[id] = "due" /\ timers'[id] = "none"
CallInFlight(id) == calls[id].pc # "none" /\ ~calls[id].aborted
C20_TimeoutAbortsAndFailureIsShown ==
    [][\A id \in Ids :
        TimerFires(id) =>
            IF CallInFlight(id)
            THEN /\ calls'[id].pc = "none"
                 /\ lastDone'.how = "failed"
                 /\ storage' = storage
                 /\ (calls[id].kind = "manifest" /\ provider = "mounted")
                        => (error' # NoError /\ ~loading')
                 /\ calls[id].kind = "lesson"
                        => (contentError' # NoError /\ ~contentLoading')
            ELSE UNCHANGED <<storage, calls, manifest, loading, error,
                             lessonContent, contentLoading, contentError,
                             lastDone>>]_vars

\* a lesson fetch has timed out and its failure is displayed, while the
\* manifest, fetched before its own timer fired, is still there
C20_Witness ==
    /\ \E slug \in Slugs : contentError = <<"Failed to load lesson", slug, "Unknown error">>
    /\ ~contentLoading
    /\ manifest # NoManifest
    /\ nextId = 3
    /\ \A id \in Ids : timers[id] = "none"

---------------------------------------------------------------------------
\* C24: in the Lesson route, lesson content that is displayed is the content
\* of the lesson the route slug selects: content of a lesson viewed before is
\* never on screen while the new lesson loads or after its fetch failed.
C24_DisplayedContentIsOfRouteSlug ==
    (route \in Slugs /\ lessonContent # NoContent)
        => lessonContent.markdown = LessonFile(route)

\* C25: in the Lesson route, contentLoading is true whenever the fetch of
\* the current effect is in flight and not aborted; the finally block of an
\* earlier, aborted fetch never clears the flag of the newer fetch.
C25_LoadingWhileCurrentFetchInFlight ==
    (effectCall # 0 /\ calls[effectCall].pc # "none" /\ ~calls[effectCall].aborted)
        => contentLoading

---------------------------------------------------------------------------
\* C30: for a manifest whose slugs are unique, getLessonNavigation returns as
\* previous the lesson just before and as next the lesson just after the
\* current one in manifest.lessons, undefined before the first, after the
\* last and, both, for a slug that is not in the manifest; following next and
\* then previous leads back to the starting lesson.
C30_NavigationIsNeighbours ==
    pcN = "lesson" =>
        LET cur == navigation.current
            pos == {i \in 1..Len(navLessons) : navLessons[i].slug = cur}
        IN  IF pos = {}
            THEN navigation.previous = Undefined /\ navigation.next = Undefined
            ELSE \A i \in pos :
                    /\ navigation.previous =
                          IF i = 1 THEN Undefined ELSE navLessons[i - 1].slug
                    /\ navigation.next =
                          IF i = Len(navLessons) THEN Undefined ELSE navLessons[i + 1].slug
                    /\ navigation.next # Undefined =>
                          getLessonNavigation(navLessons, navigation.next).previous = cur

\* navigation was computed for the middle lesson of three
C30_Witness ==
    /\ pcN = "lesson" /\ Len(navLessons) = 3
    /\ navigation.previous # Undefined /\ navigation.next # Undefined

---------------------------------------------------------------------------
(* Claims about the cache as a store                                       *)

CacheOwned(k) ==
    k = "content-manifest" \/ k \in {"lesson-content-s0", "lesson-content-s1", "lesson-content-s2"}

\* C22: after clearContentCache no manifest entry and no lesson entry is
\* left, so the next fetchContentManifest and the next fetchLessonContent of
\* any slug go to the network; the items under other keys are unchanged.
C22_ClearRemovesTheCacheOnly ==
    [][/\ ClearContentCache =>
            \A k \in StorageKeys :
                IF CacheOwned(k) THEN ~storage'[k].has ELSE storage'[k] = storage[k]
       /\ (DirectCall /\ lastDone.how = "cleared" /\ \A k \in Keys : ~storage[k].has)
            => direct'.outcome = "pending"]_vars

\* the cache was cleared while an item of another script was stored: the
\* item is still there, no entry is left and the next call is waiting for
\* the network
C22_Witness ==
    /\ lastDone.how = "cleared"
    /\ storage[ForeignKey] = OtherItem
    /\ \A k \in StorageKeys \ {ForeignKey} : ~storage[k].has
    /\ direct.outcome = "pending"
    /\ now > TickMs

C28_CorruptEntryIsAMiss ==
    [][(DirectCall /\ storage[direct'.key] = Truncated)
            => direct'.outcome = "pending"]_vars

\* the error fetchContentManifest throws to its caller for each failure
ManifestFailure(cause) ==
    ManifestCatch(CASE cause = "http" -> HttpError
                    [] cause = "json" -> JsonError
                    [] cause = "abort" -> AbortError)

\* C23: a failure of fetchContentManifest reaches the caller with a kind of
\* its own: a non-success response, an unparseable payload and a payload of
\* the wrong shape each end in an error, of three different kinds, and each
\* kind differs from that of a cancellation.
C23_FailureKindsAreDistinct ==
    direct.key = MANIFEST_CACHE_KEY =>
        /\ direct.cause = "shape" => direct.outcome = "threw"
        /\ direct.outcome \in {"threw", "aborted"} =>
              \A c \in {"http", "json", "abort"} \ {direct.cause} :
                  direct.error.name # ManifestFailure(c).name

---------------------------------------------------------------------------
(* Claims about the mounted MarkdownRenderer                               *)

AllRunsFinished == \A i \in 1..Len(runs) : runs[i].outcome # "pending"

\* C26: when the markdown prop changes while an earlier run of processMarkdown
\* is pending, the state after all runs have finished is that of the run for
\* the latest markdown: its html and no error, or its error; a slower run for
\* older markdown does not overwrite it.
C26_LatestRunWins ==
    (pcR = "mounted" /\ runs # <<>> /\ AllRunsFinished /\ Last(runs).md = mdSource) =>
        /\ ~isLoading
        /\ IF Last(runs).outcome = "html"
           THEN processedHtml = processMarkdown(mdSource) /\ renderError = NoRenderError
           ELSE renderError = ProcessFailedMessage

\* C27: for every markdown a loaded lesson can carry, the empty string too,
\* MarkdownRenderer leaves its loading state in the end and shows content or
\* an error.
C27_LoadingEnds ==
    (pcR = "mounted") ~> (~isLoading /\ Displayed.kind \in {"html", "error"})

\* C21: the rendered document of a lesson is produced once per network fetch
\* and stored in the cache entry with the source and the headings, so that a
\* lesson shown from a valid entry needs no run of the pipeline.
C21_RenderedDocumentIsCached ==
    \A sl \in Slugs :
        storage[LessonKey(sl)].has =>
            LET entry == Parse(storage[LessonKey(sl)])
            IN  /\ "html" \in DOMAIN entry
                /\ entry.html = processMarkdown(entry.content)

=============================================================================
